---- MODULE Spec2Model ----
(***************************************************************************)
(* Model of anonpy: the RequestHandler (session, retry strategy,           *)
(* credentials, transport primitives) and the AnonPy resource client       *)
(* (upload, preview, download).                                            *)
(*                                                                         *)
(* Strings that matter structurally (URLs, endpoint templates) are         *)
(* sequences of tokens in which every "/" is a token of its own and the    *)
(* placeholder "{}" is one token.  Byte strings (the token handed to       *)
(* base64) are sequences of byte values.  File and body contents are       *)
(* identified with their byte positions, so a chunk is a slice             *)
(* [off, len] of the file or body.                                         *)
(***************************************************************************)
EXTENDS Integers, Sequences, FiniteSets, TLC

\* ---------------------------------------------------------------- bounds
MaxSmallFile == 5       \* source files of 0..MaxSmallFile bytes are uploaded
MaxBig == 1             \* and files of 2 MiB + 0..MaxBig, 3 MiB + 0..MaxBig
MaxTotal == 1           \* clients are configured with total in 0..MaxTotal
MaxFails == 2           \* a server answers up to MaxFails times 503 first
MaxBody == 3            \* response bodies of 0..MaxBody bytes
MaxExpected == 4        \* download is called with size in 0..MaxExpected
MaxSessions == 1        \* calls that build sessions start while fewer were built
MaxSlashes == 2          \* 0..MaxSlashes redundant slashes on either side of a join
MaxCalls == 2           \* transport calls in one scenario of the primitives
MaxTimeout == 2         \* timeouts of 0..MaxTimeout half-seconds, or None
MaxClients == 2         \* clients constructed in one scenario
MaxAppends == 2         \* codes appended to status_forcelist lists in one scenario
MaxRecords == 1         \* records written to one log file
MaxResources == 2       \* resources or files given to one CLI command
MaxSetting == 2         \* int settings of 0..MaxSetting (at most 9)
MaxKeys == 2

\* ------------------------------------------------------ program constants
MB == 1048576
_status_forcelist == {413, 429, 500, 502, 503, 504}

\* Python's None for an int argument, and for a str argument
NoneInt == -1
NoneStr == "None"

Min(a, b) == IF a <= b THEN a ELSE b

\* --------------------------------------------------------------- strings
RECURSIVE rstrip(_)
rstrip(s) ==
    IF s # <<>> /\ s[Len(s)] = "/" THEN rstrip(SubSeq(s, 1, Len(s) - 1)) ELSE s

RECURSIVE lstrip(_)
lstrip(s) ==
    IF s # <<>> /\ s[1] = "/" THEN lstrip(Tail(s)) ELSE s

\* the two parts put side by side around a slash, nothing stripped
join_url_Concat(u, p) == u \o <<"/">> \o p

\* join_url(url, path) for one path: f"{u.rstrip('/')}/{p.lstrip('/')}"
join_url(u, p) == rstrip(u) \o <<"/">> \o lstrip(p)

\* str.format with one positional argument: the placeholder is replaced
format(template, arg) ==
    [i \in 1..Len(template) |-> IF template[i] = "{}" THEN arg ELSE template[i]]

\* ---------------------------------------------------------------- base64
Pad == 64

\* base64.b64encode: three bytes become four sextets, "=" pads the tail
RECURSIVE b64from(_, _)
b64from(b, i) ==
    IF i > Len(b) THEN <<>>
    ELSE LET has2 == i + 1 <= Len(b)
             has3 == i + 2 <= Len(b)
             v == b[i] * 65536 + (IF has2 THEN b[i + 1] ELSE 0) * 256
                  + (IF has3 THEN b[i + 2] ELSE 0)
         IN  << v \div 262144,
                (v \div 4096) % 64,
                IF has2 THEN (v \div 64) % 64 ELSE Pad,
                IF has3 THEN v % 64 ELSE Pad >> \o b64from(b, i + 3)

b64encode(b) == b64from(b, 1)

\* ------------------------------------------------------------- providers
\* api base URL and Endpoint templates of the two configurations in the
\* repository: the PixelDrain provider and the client of the unit tests
Providers ==
    { [api      |-> <<"https:", "/", "/", "pixeldrain.com", "/", "api", "/">>,
       upload   |-> <<"/", "file">>,
       download |-> <<"file", "/", "{}">>,
       preview  |-> <<"/", "file", "/", "{}", "/", "info">>],
      [api      |-> <<"https:", "/", "/", "mock.provider.com", "/", "api", "/">>,
       upload   |-> <<"/", "file">>,
       download |-> <<"/", "file", "/", "{}">>,
       preview  |-> <<"/", "file", "/", "{}", "/", "info">>] }

\* tokens, as the bytes of their encoding; <<>> stands for token = None
NoToken == <<>>
Tokens == { <<107, 101>> }

\* members of the Authorization enum: the class body only annotates
\* Basic and Digest (Basic: auto()), which defines no member
AuthorizationMembers == {}
AuthArgs == {"Basic", "Digest"}

\* ----------------------------------------------------------------- state
VARIABLES
    config,       \* the client's slots set by __init__ (api, endpoint, token, total)
    credentials,  \* self.credentials: <<>> (None) or the base64 sextets
    credCalled,   \* set_credentials(Authorization.Basic) has been called
    nextSid,      \* number of Session objects created so far
    firstSid,     \* the session that carried the first request (0: none yet)
    lastCall,     \* the last transport call of the running / last operation
    frame,        \* the locals of the running / last upload, preview, download
    dest,         \* the destination file of download on disk
    aux           \* the objects of the specifications of single components
                  \* (URL joining, Timeout, constructors, loggers, kwargs)

vars == <<config, credentials, credCalled, nextSid, firstSid, lastCall, frame,
          dest, aux>>

\* the value of the Authorization header: absent, or Basic <credentials>
NoAuth == [scheme |-> "", credentials |-> <<>>]
Basic(b64) == [scheme |-> "Basic", credentials |-> b64]

NoCall == [method |-> "none", sid |-> 0, url |-> <<>>, Authorization |-> NoAuth,
           attempts |-> 0, outcome |-> "none", forced |-> FALSE,
           afterCredentials |-> FALSE]

\* aux while the client specification runs
NoAux == [kind |-> "none"]

\* a Python value that is either a str or a bool
PyStr(s) == [t |-> "str", s |-> s, b |-> FALSE]
PyBool(b) == [t |-> "bool", s |-> <<>>, b |-> b]

Unbound == [bound |-> FALSE, hasUrl |-> FALSE, hasId |-> FALSE]
NoResult == [name |-> NoneStr, size |-> NoneInt, resource |-> "", url |-> PyBool(FALSE)]
NoFile == [exists |-> FALSE, content |-> <<>>]

IdleFrame ==
    [op |-> "none", status |-> "none", error |-> "", progressbar |-> FALSE,
     size |-> NoneInt, name |-> NoneStr, chunk_size |-> 0, offset |-> 0,
     sent |-> <<>>, progress |-> 0, response |-> Unbound, handle |-> FALSE,
     requests |-> 0, opened |-> FALSE, body |-> 0, destBefore |-> NoFile,
     result |-> NoResult]

\* RequestHandler.__init__ / AnonPy.__init__
Init ==
    /\ config \in [provider : Providers, token : Tokens \cup {NoToken},
                   total : 0..MaxTotal]
    /\ credentials = <<>>
    /\ credCalled = FALSE
    /\ nextSid = 0
    /\ firstSid = 0
    /\ lastCall = NoCall
    /\ frame = IdleFrame
    /\ dest = NoFile
    /\ aux = NoAux

Idle == frame.status \in {"none", "returned", "raised"}

\* ---------------------------------------------------- session and retries
\* RequestHandler._session: every evaluation of the property builds a new
\* Session whose headers hold the User-Agent only
_session(n) == [sid |-> n + 1, User_Agent |-> "user_agent", Authorization |-> NoAuth]

\* methods urllib3 retries on a forcelisted status: Retry(total=...,
\* status_forcelist=..., backoff_factor=...) leaves allowed_methods at the
\* library default, which does not contain POST
AllowedMethods == {"HEAD", "GET", "PUT", "DELETE", "OPTIONS", "TRACE"}

\* RequestHandler._retry_strategy: is a response with this status retried
is_retry(method, status) ==
    method \in AllowedMethods /\ status \in _status_forcelist

\* a server: it answers `fails` times 503, then `final` for ever
ServerScripts ==
    [fails : 0..MaxFails, final : {200, 404}] \cup [fails : {0}, final : {503}]
StatusOf(srv, i) == IF i <= srv.fails THEN 503 ELSE srv.final
AlwaysForcelisted(srv) == srv.final \in _status_forcelist

\* the adapter mounted by _session: the i-th attempt with `retries` left;
\* exhausted retries raise RetryError, and the response hook
\* (raise_for_status) raises HTTPError on a 4xx / 5xx response
RECURSIVE send(_, _, _, _)
send(method, srv, retries, i) ==
    LET status == StatusOf(srv, i)
    IN  IF is_retry(method, status)
        THEN IF retries - 1 < 0
             THEN [attempts |-> i, outcome |-> "RetryError"]
             ELSE send(method, srv, retries - 1, i + 1)
        ELSE [attempts |-> i,
              outcome |-> IF status >= 400 THEN "HTTPError" ELSE "ok"]

\* RequestHandler._get / _post / _put: the call record of one transport call
request(method, endpoint, srv) ==
    LET session == _session(nextSid)
        r == send(method, srv, config.total, 1)
    IN  [method |-> method, sid |-> session.sid,
         url |-> join_url(config.provider.api, endpoint),
         Authorization |-> session.Authorization,
         attempts |-> r.attempts, outcome |-> r.outcome,
         forced |-> AlwaysForcelisted(srv),
         afterCredentials |-> credCalled]

\* the bookkeeping of one transport call
Transport(call) ==
    /\ nextSid' = call.sid
    /\ firstSid' = IF firstSid = 0 THEN call.sid ELSE firstSid
    /\ lastCall' = call

\* RequestHandler.set_credentials
set_credentials(auth) ==
    /\ Idle
    /\ credCalled' = (credCalled \/ auth = "Basic")
    /\ IF "Basic" \notin AuthorizationMembers
       THEN \* `case Authorization.Basic` looks the member up: AttributeError
            /\ frame' = [IdleFrame EXCEPT !.op = "set_credentials",
                             !.status = "raised", !.error = "AttributeError"]
            /\ UNCHANGED <<credentials, nextSid>>
       ELSE IF auth = "Basic"
       THEN IF config.token = NoToken
            THEN /\ frame' = [IdleFrame EXCEPT !.op = "set_credentials",
                                  !.status = "raised", !.error = "AttributeError"]
                 /\ UNCHANGED <<credentials, nextSid>>
            ELSE \* the header is installed on a session built for this
                 \* statement only
                 /\ nextSid < MaxSessions
                 /\ LET session == [_session(nextSid) EXCEPT
                                    !.Authorization = Basic(b64encode(config.token))]
                    IN  /\ credentials' = session.Authorization.credentials
                        /\ nextSid' = session.sid
                        /\ frame' = [IdleFrame EXCEPT !.op = "set_credentials",
                                         !.status = "returned"]
       ELSE /\ frame' = [IdleFrame EXCEPT !.op = "set_credentials",
                             !.status = "raised", !.error = "NotImplementedError"]
            /\ UNCHANGED <<credentials, nextSid>>
    /\ lastCall' = NoCall
    /\ UNCHANGED <<aux, config, firstSid, dest>>

\* ----------------------------------------------------------------- logger
\* the logger as upload, preview and download find it: enable_logging is a
\* public attribute and handlers are attached by the caller, so both are
\* inputs of the call
LoggerStates == [enable_logging : BOOLEAN, handlers : BOOLEAN]
LoggerError == "TypeError: Logger configured incorrectly"

\* a log that looks for handlers before it looks at hide
log_HandlersFirst(hide, handlers) ==
    IF ~handlers THEN LoggerError ELSE ""

\* LogHandler.log(level, message, hide=hide): the error it raises, if any
log(hide, handlers) ==
    IF hide THEN "" ELSE IF ~handlers THEN LoggerError ELSE ""

\* self.logger.info(..., hide=not self.enable_logging)
info(logger) == log(~logger.enable_logging, logger.handlers)

\* ------------------------------------------------------------ with blocks
\* an exception that leaves `with open(...)` without closing the file
raise_in_with_Leak(f, err) ==
    [f EXCEPT !.status = "raised", !.error = err]

\* an exception leaves the `with open(...) as file_handler` block: the
\* context manager closes the file
raise_in_with(f, err) ==
    [f EXCEPT !.status = "raised", !.error = err, !.handle = FALSE]

\* a transport call whose exception is swallowed by the caller
failed_Swallowed(call) == FALSE

\* a transport call raised: nothing in upload, preview or download catches
\* the exception, so the statements after the call are not reached
failed(call) == call.outcome # "ok"

\* ---------------------------------------------------------------- preview
Resources == {"1tdWj9g2"}

\* AnonPy.preview
preview(resource, srv) ==
    /\ Idle
    /\ nextSid < MaxSessions
    /\ LET call == request("GET", format(config.provider.preview, resource), srv)
           f == [IdleFrame EXCEPT !.op = "preview", !.requests = call.attempts]
       IN  /\ Transport(call)
           /\ IF failed(call)
              THEN frame' = [f EXCEPT !.status = "raised", !.error = call.outcome]
              ELSE \E logger \in LoggerStates :
                     frame' = IF info(logger) # ""
                              THEN [f EXCEPT !.status = "raised", !.error = info(logger)]
                              ELSE [f EXCEPT !.status = "returned"]
    /\ UNCHANGED <<aux, config, credentials, credCalled, dest>>

\* ----------------------------------------------------------------- upload
\* source files by size
FileSizes ==
    (0..MaxSmallFile) \cup {10}
                      \cup {2 * MB + d : d \in 0..MaxBig}
                      \cup {3 * MB + d : d \in 0..MaxBig}

\* JSON bodies of a successful upload response: with or without a "url"
\* field, with or without an "id" field
ResponseUrl == <<"https:", "/", "/", "cdn", "/", "1tdWj9g2">>
Responses == [bound : {TRUE}, hasUrl : BOOLEAN, hasId : BOOLEAN]

\* the halving left out: chunk_size = min(1*MB, size)
ChunkSize_NoHalving(size) == Min(1 * MB, size)

\* chunk_size = min(1*MB, size // 2)
ChunkSize(size) == Min(1 * MB, size \div 2)

\* the progress bar advanced whether or not the POST returned
advance_BeforePost(progress, chunk, outcome) == progress + chunk.len

\* progress.update(task_id, advance=len(chunk)) is the statement after the
\* _post call: it is reached only when the call returned
advance(progress, chunk, outcome) ==
    IF outcome = "ok" THEN progress + chunk.len ELSE progress

\* file_handler.read(chunk_size) at offset off of a file of `size` bytes
read(size, off, n) == [off |-> off, len |-> Min(n, size - off)]

\* AnonPy.upload up to the first read
upload_start(size, progressbar) ==
    /\ Idle
    /\ nextSid < MaxSessions
    /\ frame' = [IdleFrame EXCEPT !.op = "upload", !.status = "running",
                     !.progressbar = progressbar, !.name = "f.bin",
                     !.size = size, !.chunk_size = ChunkSize(size),
                     !.handle = TRUE]
    /\ lastCall' = NoCall
    /\ UNCHANGED <<aux, config, credentials, credCalled, nextSid, firstSid, dest>>

\* one pass of the loop: a non-empty chunk is read, posted, and the
\* progress bar is advanced
upload_chunk(srv) ==
    /\ frame.op = "upload" /\ frame.status = "running"
    /\ LET chunk == read(frame.size, frame.offset, frame.chunk_size)
           call == request("POST", config.provider.upload, srv)
       IN  /\ chunk.len > 0
           /\ Transport(call)
           /\ IF ~failed(call)
              THEN \E resp \in Responses :
                     frame' = [frame EXCEPT !.response = resp,
                                   !.sent = Append(@, chunk),
                                   !.offset = @ + chunk.len,
                                   !.progress = advance(@, chunk, call.outcome),
                                   !.requests = @ + call.attempts]
              ELSE frame' = raise_in_with(
                                [frame EXCEPT !.progress = advance(@, chunk, call.outcome),
                                              !.requests = @ + call.attempts],
                                call.outcome)
    /\ UNCHANGED <<aux, config, credentials, credCalled, dest>>

\* the decoding of the last response: url := (response_data.get("url") is None)
decode(provider, response) ==
    IF ~response.hasUrl
    THEN LET resource == IF response.hasId THEN "1tdWj9g2" ELSE "UNKNOWN"
         IN  [resourceBound |-> TRUE, resource |-> resource,
              url |-> PyStr(join_url(provider.api, format(provider.download, resource)))]
    ELSE [resourceBound |-> FALSE, resource |-> "", url |-> PyBool(FALSE)]

\* the read that returns b"" ends the loop; the response is decoded and
\* the result returned
upload_finish ==
    /\ frame.op = "upload" /\ frame.status = "running"
    /\ read(frame.size, frame.offset, frame.chunk_size).len = 0
    /\ IF ~frame.response.bound
       THEN frame' = [frame EXCEPT !.status = "raised", !.handle = FALSE,
                          !.error = "UnboundLocalError"]
       ELSE \E logger \in LoggerStates :
              LET d == decode(config.provider, frame.response)
              IN  IF info(logger) # ""
                  THEN frame' = [frame EXCEPT !.status = "raised", !.handle = FALSE,
                                     !.error = info(logger)]
                  ELSE IF ~d.resourceBound
                  THEN frame' = [frame EXCEPT !.status = "raised", !.handle = FALSE,
                                     !.error = "UnboundLocalError"]
                  ELSE frame' = [frame EXCEPT !.status = "returned", !.handle = FALSE,
                                     !.result = [name |-> frame.name, size |-> frame.size,
                                                 resource |-> d.resource, url |-> d.url]]
    /\ UNCHANGED <<aux, config, credentials, credCalled, nextSid, firstSid, lastCall, dest>>

\* --------------------------------------------------------------- download
Names == {NoneStr, "f.bin"}
ExpectedSizes == {NoneInt} \cup (0..MaxExpected)
Bodies == 0..MaxBody

\* the check with `and` between the two tests
InvalidCombination_And(progressbar, size, name) ==
    progressbar /\ (size = NoneInt /\ name = NoneStr)

\* if enable_progressbar and (size is None or name is None)
InvalidCombination(progressbar, size, name) ==
    progressbar /\ (size = NoneInt \/ name = NoneStr)

\* the statements of download before the destination is opened: the
\* argument check, path / name, and size // 2
prologue(progressbar, size, name) ==
    IF InvalidCombination(progressbar, size, name)
    THEN "TypeError: invalid combination of arguments"
    ELSE IF name = NoneStr
    THEN "TypeError: unsupported operand type(s) for /"
    ELSE IF size = NoneInt
    THEN "TypeError: unsupported operand type(s) for //"
    ELSE ""

\* AnonPy.download up to the streaming GET
download_start(resource, progressbar, size, name) ==
    /\ Idle
    /\ LET err == prologue(progressbar, size, name)
           f == [IdleFrame EXCEPT !.op = "download", !.progressbar = progressbar,
                     !.size = size, !.name = name, !.destBefore = dest]
       IN  IF err # ""
           THEN /\ frame' = [f EXCEPT !.status = "raised", !.error = err]
                /\ lastCall' = NoCall
                /\ UNCHANGED <<nextSid, firstSid, dest>>
           ELSE \E srv \in ServerScripts :
                  /\ nextSid < MaxSessions
                  /\ LET call == request("GET", format(config.provider.download, resource), srv)
                         g == [f EXCEPT !.chunk_size = ChunkSize(size),
                                   !.opened = TRUE, !.handle = TRUE,
                                   !.requests = call.attempts]
                     IN  \* open(full_path, mode="wb") creates or truncates
                         /\ dest' = [exists |-> TRUE, content |-> <<>>]
                         /\ Transport(call)
                         /\ IF ~failed(call)
                            THEN \E body \in Bodies :
                                   frame' = [g EXCEPT !.status = "running",
                                                 !.body = body]
                            ELSE frame' = raise_in_with(g, call.outcome)
    /\ UNCHANGED <<aux, config, credentials, credCalled>>

\* one chunk of response.iter_content(chunk_size) is written
download_chunk ==
    /\ frame.op = "download" /\ frame.status = "running"
    /\ frame.chunk_size > 0
    /\ LET chunk == read(frame.body, frame.offset, frame.chunk_size)
       IN  /\ chunk.len > 0
           /\ dest' = [dest EXCEPT !.content = Append(@, chunk)]
           /\ frame' = [frame EXCEPT !.offset = @ + chunk.len,
                            !.progress = @ + chunk.len]
    /\ UNCHANGED <<aux, config, credentials, credCalled, nextSid, firstSid, lastCall>>

\* iter_content(0): every read asks for 0 bytes, the stream is never
\* consumed and never closed, and the loop does not end
download_hang ==
    /\ frame.op = "download" /\ frame.status = "running"
    /\ frame.chunk_size = 0
    /\ frame' = [frame EXCEPT !.status = "hung"]
    /\ UNCHANGED <<aux, config, credentials, credCalled, nextSid, firstSid, lastCall, dest>>

\* the connection breaks while the body is streamed: iter_content raises
download_abort ==
    /\ frame.op = "download" /\ frame.status = "running"
    /\ frame.offset < frame.body
    /\ frame' = raise_in_with(frame, "ConnectionError")
    /\ UNCHANGED <<aux, config, credentials, credCalled, nextSid, firstSid, lastCall, dest>>

\* the body is exhausted: the file is closed and the result returned
download_finish ==
    /\ frame.op = "download" /\ frame.status = "running"
    /\ frame.chunk_size > 0
    /\ frame.offset = frame.body
    /\ \E logger \in LoggerStates :
         LET relative_path == format(config.provider.download, "1tdWj9g2")
         IN  frame' = IF info(logger) # ""
                      THEN [frame EXCEPT !.status = "raised", !.handle = FALSE,
                                !.error = info(logger)]
                      ELSE [frame EXCEPT !.status = "returned", !.handle = FALSE,
                                !.result = [name |-> frame.name, size |-> frame.size,
                                            resource |-> "1tdWj9g2",
                                            url |-> PyStr(join_url(config.provider.api,
                                                                   relative_path))]]
    /\ UNCHANGED <<aux, config, credentials, credCalled, nextSid, firstSid, lastCall, dest>>

\* ---------------------------------------------------------- specification
Next ==
    \/ \E auth \in AuthArgs : set_credentials(auth)
    \/ \E resource \in Resources, srv \in ServerScripts :
            preview(resource, srv)
    \/ \E size \in FileSizes, pb \in BOOLEAN : upload_start(size, pb)
    \/ \E srv \in ServerScripts : upload_chunk(srv)
    \/ upload_finish
    \/ \E resource \in Resources, pb \in BOOLEAN, size \in ExpectedSizes, name \in Names :
            download_start(resource, pb, size, name)
    \/ download_chunk
    \/ download_hang
    \/ download_abort
    \/ download_finish

Spec == Init /\ [][Next]_vars

\* --------------------------------------------------- transport primitives
\* _get, _post and _put taken by themselves: a client whose base URL ends
\* in any number of slashes, endpoints that start with any number, and the
\* caller's keyword arguments
RECURSIVE Slashes(_)
Slashes(n) == IF n = 0 THEN <<>> ELSE <<"/">> \o Slashes(n - 1)

\* the base URLs without their trailing slash, the endpoints without a
\* leading one
Stem(provider) == SubSeq(provider.api, 1, Len(provider.api) - 1)
Rests == { <<"file">>, <<"file", "/", "1tdWj9g2">>,
           <<"file", "/", "1tdWj9g2", "/", "info">> }

\* keyword arguments a caller may add to a transport call
KwargNames == {"timeout", "proxies", "stream"}

\* the keywords each primitive passes to the session method itself
Explicit(method) ==
    IF method = "GET" THEN {"url", "timeout", "proxies"}
    ELSE {"url", "timeout", "proxies", "verify"}

\* self._session.<method>(url=..., timeout=self.timeout,
\* proxies=self.proxies, [verify=True,] **kwargs): a keyword given twice
\* is a TypeError of the call itself; otherwise the session method
\* receives the primitive's keywords and the caller's
call_kwargs(method, kwargs) ==
    IF Explicit(method) \cap kwargs # {}
    THEN [error |-> "TypeError: got multiple values for keyword argument",
          received |-> [k \in {} |-> ""]]
    ELSE [error |-> "",
          received |-> [k \in Explicit(method) \cup kwargs |->
                          IF k \in Explicit(method) THEN "configured" ELSE "caller"]]

InitTransport ==
    /\ \E p \in Providers, k \in 0..MaxSlashes :
         /\ config = [provider |-> [p EXCEPT !.api = Stem(p) \o Slashes(k)],
                      token |-> NoToken, total |-> 0]
         /\ aux = [kind |-> "transport", stem |-> Stem(p), rest |-> <<>>,
                   endpoint |-> <<>>, kwargs |-> {}, method |-> "",
                   url |-> <<>>, error |-> "", received |-> [x \in {} |-> ""],
                   calls |-> 0]
    /\ credentials = <<>>
    /\ credCalled = FALSE
    /\ nextSid = 0
    /\ firstSid = 0
    /\ lastCall = NoCall
    /\ frame = IdleFrame
    /\ dest = NoFile

\* one call of a primitive with an endpoint and keyword arguments
primitive(method, rest, j, kwargs) ==
    /\ aux.kind = "transport"
    /\ aux.calls < MaxCalls
    /\ LET endpoint == Slashes(j) \o rest
           call == request(method, endpoint, [fails |-> 0, final |-> 200])
           k == call_kwargs(method, kwargs)
       IN  aux' = [aux EXCEPT !.rest = rest, !.endpoint = endpoint,
                       !.kwargs = kwargs, !.method = method, !.url = call.url,
                       !.error = k.error, !.received = k.received,
                       !.calls = @ + 1]
    /\ UNCHANGED <<config, credentials, credCalled, nextSid, firstSid, lastCall,
                   frame, dest>>

_get == \E rest \in Rests, j \in 0..MaxSlashes, kwargs \in SUBSET KwargNames :
           primitive("GET", rest, j, kwargs)
_post == \E rest \in Rests, j \in 0..MaxSlashes, kwargs \in SUBSET KwargNames :
           primitive("POST", rest, j, kwargs)
_put == \E rest \in Rests, j \in 0..MaxSlashes, kwargs \in SUBSET KwargNames :
           primitive("PUT", rest, j, kwargs)

NextTransport == _get \/ _post \/ _put

SpecTransport == InitTransport /\ [][NextTransport]_vars

\* ----------------------------------------------------------------- Timeout
\* a client whose transfers have not started: the state of the transfer
\* variables in the scenarios that look at construction only
NoTransfer ==
    /\ credentials = <<>>
    /\ credCalled = FALSE
    /\ nextSid = 0
    /\ firstSid = 0
    /\ lastCall = NoCall
    /\ frame = IdleFrame
    /\ dest = NoFile

\* Python's `x or y` on numbers and None: None and 0 are falsy
Truthy(x) == x # NoneInt /\ x # 0

\* what requests makes of a timeout: a number applies to connect and read,
\* a tuple is (connect, read); None in either place is no limit
Scalar(v) == [shape |-> "scalar", connect |-> v, read |-> v]
Pair(c, r) == [shape |-> "tuple", connect |-> c, read |-> r]

\* the ways Timeout is called, as the parameters Python binds:
\* Timeout(), Timeout(a), Timeout(a, b), Timeout(connect=a, read=b),
\* Timeout(connect=a), Timeout(read=a); positional arguments bind to
\* values, connect, read in this order
TimeoutForms == {"()", "(a)", "(a, b)", "(connect=a, read=b)", "(connect=a)", "(read=a)"}
TimeoutArgs == 0..MaxTimeout
bind(form, a, b) ==
    CASE form = "()"                    -> [values |-> NoneInt, connect |-> NoneInt, read |-> NoneInt]
      [] form = "(a)"                   -> [values |-> a, connect |-> NoneInt, read |-> NoneInt]
      [] form = "(a, b)"                -> [values |-> a, connect |-> b, read |-> NoneInt]
      [] form = "(connect=a, read=b)"   -> [values |-> NoneInt, connect |-> a, read |-> b]
      [] form = "(connect=a)"           -> [values |-> NoneInt, connect |-> a, read |-> NoneInt]
      [] form = "(read=a)"              -> [values |-> NoneInt, connect |-> NoneInt, read |-> a]

\* a constructor that gives connect and read precedence over values
Timeout_init_Keywords(v, c, r) ==
    [values  |-> IF c # NoneInt \/ r # NoneInt THEN Pair(c, r) ELSE Scalar(v),
     connect |-> IF c # NoneInt THEN c ELSE v,
     read    |-> IF r # NoneInt THEN r ELSE v,
     warned  |-> v = NoneInt /\ c = NoneInt /\ r = NoneInt]

\* Timeout.__init__(values=None, connect=None, read=None), with v, c, r
\* for the three parameters
Timeout_init(v, c, r) ==
    [values  |-> IF Truthy(v) THEN Scalar(v) ELSE Pair(c, r),
     connect |-> IF Truthy(v) THEN v ELSE c,
     read    |-> IF Truthy(v) THEN v ELSE r,
     warned  |-> v = NoneInt /\ c = NoneInt /\ r = NoneInt]

NoTimeout == [values |-> Pair(NoneInt, NoneInt), connect |-> NoneInt,
              read |-> NoneInt, warned |-> FALSE]

InitTimeout ==
    /\ NoTransfer
    /\ config \in [provider : Providers, token : {NoToken}, total : {0}]
    /\ \E form \in TimeoutForms, a \in TimeoutArgs, b \in TimeoutArgs :
         /\ form \notin {"(a, b)", "(connect=a, read=b)"} => b = 0
         /\ form = "()" => a = 0
         /\ aux = [kind |-> "timeout", stage |-> "args", form |-> form,
                   a |-> a, b |-> b, timeout |-> NoTimeout,
                   self_timeout |-> Pair(NoneInt, NoneInt),
                   request_timeout |-> Pair(NoneInt, NoneInt)]

\* the caller evaluates Timeout(...)
construct_timeout ==
    /\ aux.kind = "timeout" /\ aux.stage = "args"
    /\ LET p == bind(aux.form, aux.a, aux.b)
       IN  aux' = [aux EXCEPT !.stage = "built",
                       !.timeout = Timeout_init(p.values, p.connect, p.read)]
    /\ UNCHANGED <<config, credentials, credCalled, nextSid, firstSid, lastCall,
                   frame, dest>>

\* RequestHandler.__init__: self.timeout = timeout.values
construct_client ==
    /\ aux.kind = "timeout" /\ aux.stage = "built"
    /\ aux' = [aux EXCEPT !.stage = "client", !.self_timeout = aux.timeout.values]
    /\ UNCHANGED <<config, credentials, credCalled, nextSid, firstSid, lastCall,
                   frame, dest>>

\* a transport primitive passes timeout=self.timeout
pass_timeout ==
    /\ aux.kind = "timeout" /\ aux.stage = "client"
    /\ aux' = [aux EXCEPT !.stage = "used", !.request_timeout = aux.self_timeout]
    /\ UNCHANGED <<config, credentials, credCalled, nextSid, firstSid, lastCall,
                   frame, dest>>

NextTimeout == construct_timeout \/ construct_client \/ pass_timeout

SpecTimeout == InitTimeout /\ [][NextTimeout]_vars

\* ----------------------------------------------------------- construction
\* several clients of one process. Python lists are objects: heap[i] is
\* the content of list object i, and heap[1] is the class attribute
\* RequestHandler._status_forcelist, the default of the status_forcelist
\* parameter of RequestHandler.__init__ and of AnonPy.__init__
ClassList == 1

\* total as the caller may pass it
TotalArgs == -1..MaxTotal

\* a list the caller builds for the status_forcelist argument
CallerList == {500}

InitClients ==
    /\ NoTransfer
    /\ config \in [provider : Providers, token : {NoToken}, total : {0}]
    /\ aux = [kind |-> "clients", heap |-> << _status_forcelist >>,
              clients |-> <<>>, appends |-> 0]

\* RequestHandler.__init__: self.total = total,
\* self.status_forcelist = status_forcelist; nothing is validated and the
\* list object is stored, not copied. `expected` is the content the list
\* had at construction plus what is appended through this client
RequestHandler_init(heap, total, status_forcelist) ==
    [heap |-> heap,
     self |-> [total |-> total, status_forcelist |-> status_forcelist,
               expected |-> heap[status_forcelist]]]

\* AnonPy(api, endpoint, total=total): status_forcelist is the default
construct_default(total) ==
    /\ aux.kind = "clients" /\ Len(aux.clients) < MaxClients
    /\ LET c == RequestHandler_init(aux.heap, total, ClassList)
       IN  aux' = [aux EXCEPT !.heap = c.heap, !.clients = Append(@, c.self)]
    /\ UNCHANGED <<config, credentials, credCalled, nextSid, firstSid, lastCall,
                   frame, dest>>

\* AnonPy(api, endpoint, total=total, status_forcelist=[...]) with a list
\* the caller has just built
construct_with_list(total) ==
    /\ aux.kind = "clients" /\ Len(aux.clients) < MaxClients
    /\ LET fresh == Append(aux.heap, CallerList)
           c == RequestHandler_init(fresh, total, Len(fresh))
       IN  aux' = [aux EXCEPT !.heap = c.heap, !.clients = Append(@, c.self)]
    /\ UNCHANGED <<config, credentials, credCalled, nextSid, firstSid, lastCall,
                   frame, dest>>

\* client.status_forcelist.append(418)
append_code(i) ==
    /\ aux.kind = "clients" /\ aux.appends < MaxAppends
    /\ i \in 1..Len(aux.clients)
    /\ LET l == aux.clients[i].status_forcelist
       IN  aux' = [aux EXCEPT !.heap[l] = @ \cup {418},
                       !.clients[i].expected = @ \cup {418},
                       !.appends = @ + 1]
    /\ UNCHANGED <<config, credentials, credCalled, nextSid, firstSid, lastCall,
                   frame, dest>>

NextClients ==
    \/ \E total \in TotalArgs : construct_default(total)
    \/ \E total \in TotalArgs : construct_with_list(total)
    \/ \E i \in 1..MaxClients : append_code(i)

SpecClients == InitClients /\ [][NextClients]_vars

\* ---------------------------------------------------------------- loggers
\* two clients of one process, each with the LogHandler its constructor
\* made. getLogger(__name__) returns the one logger object of the module:
\* aux.logger is that object, aux.handlers[c] is the handlers dict of
\* client c's LogHandler, keyed by file name; each client logs to its own
\* file, named after the client here
LogClients == {"a", "b"}

\* LogLevel.DEBUG, INFO
LogLevels == {10, 20}

\* the call made last on one of the two LogHandlers
LogCall(op, c, hide) == [op |-> op, by |-> c, hide |-> hide]

\* LogHandler.__init__ as AnonPy.__init__ calls it, for both clients:
\* self.handlers = {}; the shared logger is set to LogLevel.INFO.
\* wanted[c] is the level client c asked for last
InitLoggers ==
    /\ NoTransfer
    /\ config \in [provider : Providers, token : {NoToken}, total : {0}]
    /\ aux = [kind |-> "loggers",
              logger |-> [level |-> 20, handlers |-> {}],
              handlers |-> [c \in LogClients |-> {}],
              closed |-> {},
              files |-> [c \in LogClients |->
                           [exists |-> FALSE, writers |-> {}, records |-> 0]],
              wanted |-> [c \in LogClients |-> 20],
              last |-> [op |-> "", by |-> "", hide |-> FALSE],
              error |-> ""]

\* LogHandler.with_level
with_level(c, level) ==
    /\ aux.kind = "loggers"
    /\ aux' = [aux EXCEPT !.logger.level = level, !.wanted[c] = level,
                    !.last = LogCall("with_level", c, FALSE), !.error = ""]
    /\ UNCHANGED <<config, credentials, credCalled, nextSid, firstSid, lastCall,
                   frame, dest>>

\* LogHandler.add_handler(name) for the client's log file, while no
\* handler of this file is attached
add_handler(c) ==
    /\ aux.kind = "loggers"
    /\ c \notin aux.logger.handlers
    /\ aux' = [aux EXCEPT !.files[c].exists = TRUE,
                    !.handlers[c] = @ \cup {c},
                    !.logger.handlers = @ \cup {c},
                    !.closed = @ \ {c},
                    !.last = LogCall("add_handler", c, FALSE),
                    !.error = ""]
    /\ UNCHANGED <<config, credentials, credCalled, nextSid, firstSid, lastCall,
                   frame, dest>>

\* Logger.log of the logging module: a record at or above the logger's
\* level goes to every handler of the logger; a FileHandler that was
\* closed opens its file again (append mode) to write
emit(by, level) ==
    IF level < aux.logger.level THEN aux
    ELSE [aux EXCEPT
            !.files = [h \in LogClients |->
                         IF h \in aux.logger.handlers
                         THEN [exists |-> TRUE,
                               writers |-> aux.files[h].writers \cup {by},
                               records |-> aux.files[h].records + 1]
                         ELSE aux.files[h]],
            !.closed = @ \ aux.logger.handlers]

\* LogHandler.log(level, message, hide=hide), called by the user of the
\* LogHandler (op = "log") or by upload, preview and download
\* (op = "operation") as info(..., hide=not self.enable_logging)
log_record(op, c, level, hide) ==
    /\ aux.kind = "loggers"
    /\ (~hide /\ aux.handlers[c] # {})
         => \A h \in aux.logger.handlers : aux.files[h].records < MaxRecords
    /\ LET err == log(hide, aux.handlers[c] # {})
           called == [aux EXCEPT !.last = LogCall(op, c, hide), !.error = err]
       IN  aux' = IF err # "" \/ hide THEN called
                  ELSE [emit(c, level) EXCEPT !.last = LogCall(op, c, hide),
                                              !.error = ""]
    /\ UNCHANGED <<config, credentials, credCalled, nextSid, firstSid, lastCall,
                   frame, dest>>

\* LogHandler.unlink(name) for the client's log file: the handler leaves
\* the logger and the file is deleted; self.handlers keeps its entry
unlink(c) ==
    /\ aux.kind = "loggers"
    /\ aux' = IF c \notin aux.handlers[c] \/ ~aux.files[c].exists
              THEN [aux EXCEPT !.last = LogCall("unlink", c, FALSE),
                        !.error = "FileNotFoundError"]
              ELSE [aux EXCEPT !.logger.handlers = @ \ {c},
                        !.closed = @ \cup {c},
                        !.files[c] = [exists |-> FALSE, writers |-> {}, records |-> 0],
                        !.last = LogCall("unlink", c, FALSE),
                        !.error = ""]
    /\ UNCHANGED <<config, credentials, credCalled, nextSid, firstSid, lastCall,
                   frame, dest>>

\* LogHandler.shutdown: the client's handlers are flushed and closed
shutdown(c) ==
    /\ aux.kind = "loggers"
    /\ aux' = [aux EXCEPT !.closed = @ \cup aux.handlers[c],
                    !.last = LogCall("shutdown", c, FALSE), !.error = ""]
    /\ UNCHANGED <<config, credentials, credCalled, nextSid, firstSid, lastCall,
                   frame, dest>>

OperationLog == \E c \in LogClients, enable_logging \in BOOLEAN :
                   log_record("operation", c, 20, ~enable_logging)
NextLoggers ==
    \/ \E c \in LogClients, level \in LogLevels : with_level(c, level)
    \/ \E c \in LogClients : add_handler(c)
    \/ \E c \in LogClients, level \in LogLevels, hide \in BOOLEAN :
            log_record("log", c, level, hide)
    \/ OperationLog
    \/ \E c \in LogClients : unlink(c)
    \/ \E c \in LogClients : shutdown(c)

SpecLoggers == InitLoggers /\ [][NextLoggers]_vars

\* --------------------------------------------------------------- user agent
\* RequestHandler.build_user_agent on its own. Strings are sequences of
\* atoms; " " and "/" are atoms of their own
Unset == "unset"

\* " ".join(parts)
RECURSIVE join(_)
join(parts) ==
    IF parts = <<>> THEN <<>>
    ELSE IF Len(parts) = 1 THEN parts[1]
    ELSE parts[1] \o <<" ">> \o join(Tail(parts))

\* os.environ.get(name, "N/A")
environ_get(env, name) == IF env[name] = Unset THEN "N/A" ELSE env[name]

\* build_user_agent(package, version, expose_username): the list literal
\* has no comma after its second f-string, so Python concatenates the
\* second and third literal into one element
build_user_agent(package, version, expose_username, platform, env) ==
    LET user_agent_data ==
            << <<package, "/", version>>,
               <<platform.system, "/", platform.release>>
                   \o <<"CPython", "/", platform.python_version>> >>
        username == environ_get(env, IF platform.system = "Windows"
                                     THEN "USERNAME" ELSE "USER")
    IN  [warned |-> expose_username,
         value  |-> join(IF expose_username
                         THEN Append(user_agent_data, <<"username", "/", username>>)
                         ELSE user_agent_data)]

InitUserAgent ==
    /\ NoTransfer
    /\ config \in [provider : Providers, token : {NoToken}, total : {0}]
    /\ \E platform \in [system : {"Linux", "Windows", "Darwin"},
                         release : {"6.1", "10"},
                         python_version : {"3.12.0", "3.13.1"}],
          env \in [USER : {Unset, "alice"}, USERNAME : {Unset, "bob"}],
          version \in {"1.0.0", "1.1.0"},
          expose_username \in BOOLEAN :
         aux = [kind |-> "user_agent", package |-> "anonpy", version |-> version,
                expose_username |-> expose_username, platform |-> platform,
                env |-> env, called |-> FALSE, warned |-> FALSE, value |-> <<>>]

BuildUserAgent ==
    /\ aux.kind = "user_agent" /\ ~aux.called
    /\ LET r == build_user_agent(aux.package, aux.version, aux.expose_username,
                                 aux.platform, aux.env)
       IN  aux' = [aux EXCEPT !.called = TRUE, !.warned = r.warned,
                       !.value = r.value]
    /\ UNCHANGED <<config, credentials, credCalled, nextSid, firstSid, lastCall,
                   frame, dest>>

NextUserAgent == BuildUserAgent

SpecUserAgent == InitUserAgent /\ [][NextUserAgent]_vars

\* ---------------------------------------------------------------------- CLI
\* one run of main() after the arguments are parsed and the configuration
\* file is read
CliArgs ==
    { a \in [command : {"preview", "upload", "download"},
             n : 1..MaxResources, batch : BOOLEAN,
             force : BOOLEAN, reset_config : BOOLEAN, gui : BOOLEAN,
             logging : BOOLEAN] :
        (a.batch \/ a.force) => a.command = "download" }

\* ConfigHandler.get_option(section, option) called with the keyword
\* arguments kwargs: the method has no other parameter
get_option(kwargs) ==
    IF kwargs # {} THEN "TypeError: got an unexpected keyword argument" ELSE ""

\* eval_config: the dictionary display evaluates its values in order; the
\* first one is config.get_option("client", "download_directory",
\* default=Path.cwd()), evaluated before getattr looks at args
eval_config == get_option({"default"})

InitCli ==
    /\ NoTransfer
    /\ config \in [provider : Providers, token : {NoToken}, total : {0}]
    /\ \E args \in CliArgs :
         aux = [kind |-> "cli", args |-> args, phase |-> "parsed",
                uncaught |-> "", logged |-> <<>>, printed |-> {},
                shutdowns |-> 0]

CliUnchanged ==
    UNCHANGED <<config, credentials, credCalled, nextSid, firstSid, lastCall,
                frame, dest>>

\* --reset-config: the file is written again and main returns
main_reset_config ==
    /\ aux.kind = "cli" /\ aux.phase = "parsed"
    /\ aux.args.reset_config
    /\ aux' = [aux EXCEPT !.phase = "exited"]
    /\ CliUnchanged

\* settings = eval_config(args, config): the call is outside the try
\* statement, before the client and its logger exist, so its exception
\* ends the process with a traceback; the statements after it run only
\* when it returns
main_eval_config ==
    /\ aux.kind = "cli" /\ aux.phase = "parsed"
    /\ ~aux.args.reset_config
    /\ eval_config # ""
    /\ aux' = [aux EXCEPT !.phase = "exited", !.uncaught = eval_config,
                    !.printed = {"traceback"}]
    /\ CliUnchanged

NextCli == main_reset_config \/ main_eval_config

SpecCli == InitCli /\ [][NextCli]_vars

\* ----------------------------------------------------------- CLI commands
\* the command functions preview, upload and download of __main__, called
\* with a client, the parsed arguments and the settings. The library calls
\* are taken by their outcome: a value, or the exception they raise
Raised == {"KeyboardInterrupt", "HTTPError", "RetryError", "UnboundLocalError"}

\* the resources named on the command line or in the lines of the batch file
RECURSIVE ResourceList(_)
ResourceList(n) ==
    IF n = 0 THEN <<>> ELSE Append(ResourceList(n - 1), <<"id", n>>)

\* read_file(path): a generator function whose only `yield` hands out a
\* generator expression over the lines, so iterating it gives one item,
\* that generator object
read_file(lines) == << <<"generator", 0>> >>

\* str2bool: val.lower() is looked up in the tuple of accepted answers
str2bool(val) ==
    (IF val = "Yes" THEN "yes" ELSE val)
        \in {"yes", "y", "true", "t", "1", "on", ""}

InitCommands ==
    /\ NoTransfer
    /\ config \in [provider : Providers, token : {NoToken}, total : {0}]
    /\ \E command \in {"preview", "upload", "download"}, n \in 1..MaxResources, batch \in BOOLEAN,
          force \in BOOLEAN :
         /\ (batch \/ force) => command = "download"
         /\ aux = [kind |-> "commands", command |-> command, force |-> force,
                   batch |-> batch, given |-> ResourceList(n),
                   items |-> IF batch THEN read_file(ResourceList(n))
                             ELSE ResourceList(n),
                   i |-> 1, phase |-> "loop", calls |-> <<>>,
                   previewed |-> [name |-> <<>>, size |-> 0],
                   declined |-> {}, raised |-> ""]

\* an exception leaves the command function
cli_raise(a, exc) == [a EXCEPT !.raised = exc, !.phase = "raised"]

\* the body of the loop of the preview command
cli_preview(outcome) ==
    /\ aux.kind = "commands" /\ aux.command = "preview" /\ aux.phase = "loop"
    /\ aux.i <= Len(aux.items)
    /\ LET a == [aux EXCEPT !.calls = Append(@, [op |-> "preview",
                                                 resource |-> aux.items[aux.i]])]
       IN  aux' = IF outcome = "ok" THEN [a EXCEPT !.i = @ + 1]
                  ELSE cli_raise(a, outcome)
    /\ CliUnchanged

\* the body of the loop of the upload command: anon.upload returns a
\* dict, and `upload.url` on a dict is an AttributeError
cli_upload(outcome) ==
    /\ aux.kind = "commands" /\ aux.command = "upload" /\ aux.phase = "loop"
    /\ aux.i <= Len(aux.items)
    /\ LET a == [aux EXCEPT !.calls = Append(@, [op |-> "upload",
                                                 resource |-> aux.items[aux.i]])]
       IN  aux' = IF outcome = "ok" THEN cli_raise(a, "AttributeError")
                  ELSE cli_raise(a, outcome)
    /\ CliUnchanged

\* the download command, up to the prompt: preview, name and size
cli_download_preview(outcome, size) ==
    /\ aux.kind = "commands" /\ aux.command = "download" /\ aux.phase = "loop"
    /\ aux.i <= Len(aux.items)
    /\ LET resource == aux.items[aux.i]
           a == [aux EXCEPT !.calls = Append(@, [op |-> "preview",
                                                 resource |-> resource])]
       IN  aux' = IF outcome = "ok"
                  THEN [a EXCEPT !.phase = "previewed",
                            !.previewed = [name |-> <<"name of", resource>>,
                                           size |-> size]]
                  ELSE cli_raise(a, outcome)
    /\ CliUnchanged

\* the download command from the prompt on: an existing file is asked
\* about unless --force is given; a negative answer continues with the
\* next resource, otherwise anon.download is called
cli_download(exists, answer, outcome) ==
    /\ aux.kind = "commands" /\ aux.command = "download"
    /\ aux.phase = "previewed"
    /\ LET resource == aux.items[aux.i]
           prompted == ~aux.force /\ exists
           a == [aux EXCEPT !.calls =
                     Append(@, [op |-> "download", resource |-> resource,
                                name |-> aux.previewed.name,
                                size |-> aux.previewed.size,
                                existed |-> exists,
                                confirmed |-> prompted /\ str2bool(answer)])]
       IN  aux' = IF prompted /\ ~str2bool(answer)
                  THEN [aux EXCEPT !.declined = @ \cup {resource},
                            !.i = @ + 1, !.phase = "loop"]
                  ELSE IF outcome = "ok"
                  THEN [a EXCEPT !.i = @ + 1, !.phase = "loop"]
                  ELSE cli_raise(a, outcome)
    /\ CliUnchanged

\* the loop has no item left: the function returns
cli_done ==
    /\ aux.kind = "commands" /\ aux.phase = "loop"
    /\ aux.i > Len(aux.items)
    /\ aux' = [aux EXCEPT !.phase = "returned"]
    /\ CliUnchanged

NextCommands ==
    \/ \E outcome \in {"ok"} \cup Raised : cli_preview(outcome)
    \/ \E outcome \in {"ok"} \cup Raised : cli_upload(outcome)
    \/ \E outcome \in {"ok"} \cup Raised, size \in {10, 11} :
            cli_download_preview(outcome, size)
    \/ \E exists \in BOOLEAN, answer \in {"", "y", "Yes", "n", "no"}, outcome \in {"ok"} \cup Raised :
            cli_download(exists, answer, outcome)
    \/ cli_done

SpecCommands == InitCommands /\ [][NextCommands]_vars

\* ----------------------------------------------------------- ConfigHandler
\* the scenario of tests/config_handler_test.py: a `with ConfigHandler(path)`
\* block that adds sections, then a second ConfigHandler on the same path.
\* A Python value is a tagged record; the text of a value is a string
VStr(s) == [t |-> "str", s |-> s, i |-> 0, b |-> FALSE]
VInt(i) == [t |-> "int", s |-> "", i |-> i, b |-> FALSE]
VBool(b) == [t |-> "bool", s |-> "", i |-> 0, b |-> b]

Digits == <<"0", "1", "2", "3", "4", "5", "6", "7", "8", "9">>

\* str(value)
str(v) ==
    IF v.t = "str" THEN v.s
    ELSE IF v.t = "int" THEN Digits[v.i + 1]
    ELSE IF v.t = "bool" THEN (IF v.b THEN "True" ELSE "False")
    ELSE "None"

\* convert(value): ast.literal_eval(value), or the text itself when that
\* raises SyntaxError or ValueError
convert(text) ==
    IF text = "True" THEN VBool(TRUE)
    ELSE IF text = "False" THEN VBool(FALSE)
    ELSE IF text = "None" THEN [t |-> "None", s |-> "", i |-> 0, b |-> FALSE]
    ELSE IF \E i \in 1..Len(Digits) : Digits[i] = text
    THEN VInt((CHOOSE i \in 1..Len(Digits) : Digits[i] = text) - 1)
    ELSE VStr(text)

\* ConfigParser.read: the value of `option = value` without the white
\* space around it

\* ConfigParser.write followed by ConfigParser.read
parse(data) ==
    [s \in DOMAIN data |->
        [o \in DOMAIN data[s] |->
            \* the white space around a value is stripped
            IF data[s][o] = " padded" THEN "padded" ELSE data[s][o]]]

Settings == [hello : {VStr(s) : s \in {"world", "1", "True", " padded", ""}},
             number : {VInt(i) : i \in 0..MaxSetting},
             verbose : {VBool(b) : b \in BOOLEAN}]
NoSections == [s \in {} |-> <<>>]
NoOptions == [o \in {} |-> ""]

\* f with key k bound to v
put(f, k, v) == [x \in DOMAIN f \cup {k} |-> IF x = k THEN v ELSE f[x]]

InitConfig ==
    /\ NoTransfer
    /\ config \in [provider : Providers, token : {NoToken}, total : {0}]
    /\ aux = [kind |-> "config",
              file |-> [exists |-> FALSE, data |-> NoSections],
              block |-> "new", writer |-> NoSections, added |-> NoSections,
              reader |-> [loaded |-> FALSE, config |-> NoSections],
              saved |-> FALSE, removed |-> {}]

\* __enter__: read(), then open(self.path, mode="w")
config_enter ==
    /\ aux.kind = "config" /\ aux.block = "new"
    /\ aux' = [aux EXCEPT !.block = "entered",
                    !.writer = IF aux.file.exists THEN parse(aux.file.data) ELSE @,
                    !.file = [exists |-> TRUE, data |-> NoSections]]
    /\ CliUnchanged

\* add_section(section, settings) inside the block
add_section(section, settings) ==
    /\ aux.kind = "config" /\ aux.block = "entered"
    /\ section \notin DOMAIN aux.writer
    /\ aux' = [aux EXCEPT
                 !.writer = put(@, section,
                                [o \in DOMAIN settings |-> str(settings[o])]),
                 !.added = put(@, section, settings)]
    /\ CliUnchanged

\* add_section(section) without settings
add_empty_section(section) ==
    /\ aux.kind = "config" /\ aux.block = "entered"
    /\ section \notin DOMAIN aux.writer
    /\ aux' = [aux EXCEPT !.writer = put(@, section, NoOptions),
                    !.added = put(@, section, NoOptions)]
    /\ CliUnchanged

\* __exit__: self.__config.write(self.__file_obj); close
config_exit ==
    /\ aux.kind = "config" /\ aux.block = "entered"
    /\ aux' = [aux EXCEPT !.block = "exited", !.file.data = aux.writer]
    /\ CliUnchanged

\* ConfigHandler(path).read() after the block
config_read ==
    /\ aux.kind = "config" /\ aux.block = "exited"
    /\ ~aux.reader.loaded
    /\ aux' = [aux EXCEPT !.reader =
                   [loaded |-> TRUE,
                    config |-> IF aux.file.exists THEN parse(aux.file.data)
                               ELSE NoSections]]
    /\ CliUnchanged

\* config.path.unlink()
config_unlink ==
    /\ aux.kind = "config" /\ aux.block = "exited"
    /\ aux.file.exists
    /\ aux' = [aux EXCEPT !.file = [exists |-> FALSE, data |-> NoSections],
                    !.saved = FALSE]
    /\ CliUnchanged

\* save()
config_save ==
    /\ aux.kind = "config" /\ aux.reader.loaded
    /\ aux' = [aux EXCEPT !.file = [exists |-> TRUE, data |-> aux.reader.config],
                    !.saved = TRUE]
    /\ CliUnchanged

\* remove_section(section)
remove_section(section) ==
    /\ aux.kind = "config" /\ aux.reader.loaded
    /\ aux' = [aux EXCEPT !.reader.config = [x \in DOMAIN @ \ {section} |-> @[x]],
                    !.removed = @ \cup {section}, !.saved = FALSE]
    /\ CliUnchanged

\* get_option(section, option) on the second handler
get_option_value(section, option) == convert(aux.reader.config[section][option])

\* the json property of the second handler
json ==
    [s \in DOMAIN aux.reader.config |->
        [o \in DOMAIN aux.reader.config[s] |-> convert(aux.reader.config[s][o])]]

NextConfig ==
    \/ config_enter
    \/ \E settings \in Settings : add_section("test", settings)
    \/ add_empty_section("config")
    \/ config_exit
    \/ config_read
    \/ config_unlink
    \/ config_save
    \/ \E section \in {"test", "config"} : remove_section(section)

SpecConfig == InitConfig /\ [][NextConfig]_vars

\* ---------------------------------------------------------------- Symmetric
\* a str is a sequence of code points below 2^11; a Fernet token is the pair
\* of the key that made it and the bytes it holds, so that only the same key
\* opens it
\* str.encode("utf-8")
RECURSIVE str_encode(_)
str_encode(text) ==
    IF text = <<>> THEN <<>>
    ELSE (IF Head(text) < 128 THEN <<Head(text)>>
          ELSE <<192 + (Head(text) \div 64), 128 + (Head(text) % 64)>>)
         \o str_encode(Tail(text))

\* bytes.decode("utf-8")
RECURSIVE bytes_decode(_)
bytes_decode(data) ==
    IF data = <<>> THEN <<>>
    ELSE IF Head(data) < 128 THEN <<Head(data)>> \o bytes_decode(Tail(data))
    ELSE <<(Head(data) - 192) * 64 + (data[2] - 128)>>
         \o bytes_decode(Tail(Tail(data)))

\* None for __salt, __key, __fernet, and an absent key file
NoKey == 0
KeyFiles == {"test.key"}
NoCipher == [key |-> NoKey, data |-> <<>>]

\* the keyword parameters of decrypt besides self
DecryptParams == {"path", "cypher", "encoding"}
\* the keywords callers pass the cipher text with
CipherKeywords == {"cypher", "cipher"}

SymCall(op, kw, token, outcome, result) ==
    [op |-> op, kw |-> kw, held |-> aux.fernet, token |-> token,
     outcome |-> outcome, result |-> result]

\* Symmetric() and Symmetric(key_storage_path=...)
InitSymmetric ==
    /\ NoTransfer
    /\ config \in [provider : Providers, token : {NoToken}, total : {0}]
    /\ \E storage \in BOOLEAN :
         aux = [kind |-> "symmetric", storage |-> storage,
                salt |-> FALSE, key |-> NoKey, fernet |-> NoKey,
                files |-> [f \in KeyFiles |-> NoKey],
                token |-> NoCipher, last |-> [op |-> "none", kw |-> "", held |-> NoKey,
                         token |-> NoCipher, outcome |-> "none",
                         result |-> <<>>]]

\* generate_key(password): a fresh key, with a salt when a password is given
generate_key(password, fresh) ==
    /\ aux.kind = "symmetric"
    /\ aux' = [aux EXCEPT !.salt = IF password THEN TRUE ELSE @,
                    !.key = fresh, !.fernet = fresh,
                    !.last = SymCall("generate_key", "", NoCipher, "ok", <<>>)]
    /\ CliUnchanged

\* store_key(path)
store_key(path) ==
    /\ aux.kind = "symmetric"
    /\ aux' = IF ~aux.storage \/ aux.fernet = NoKey
                THEN [aux EXCEPT !.last = SymCall("store_key", "", NoCipher,
                                                  "TypeError", <<>>)]
                ELSE [aux EXCEPT !.files[path] = aux.key,
                                 !.last = SymCall("store_key", "", NoCipher,
                                                  "ok", <<>>)]
    /\ CliUnchanged

\* delete_key(): the references are cleared
delete_key ==
    /\ aux.kind = "symmetric"
    /\ aux' = [aux EXCEPT !.salt = FALSE, !.key = NoKey, !.fernet = NoKey,
                    !.last = SymCall("delete_key", "", NoCipher, "ok", <<>>)]
    /\ CliUnchanged

\* delete_key(path): the references are cleared, then the file is unlinked
delete_key_file(path) ==
    /\ aux.kind = "symmetric"
    /\ aux' = [aux EXCEPT !.salt = FALSE, !.key = NoKey, !.fernet = NoKey,
                    !.files[path] = IF aux.storage THEN NoKey ELSE @,
                    !.last = SymCall("delete_key", "", NoCipher,
                                     IF aux.storage THEN "ok" ELSE "TypeError",
                                     <<>>)]
    /\ CliUnchanged

\* load_key(path): read_bytes of the key file, then Fernet(key)
load_key(path) ==
    /\ aux.kind = "symmetric"
    /\ aux' = IF ~aux.storage
                THEN [aux EXCEPT !.last = SymCall("load_key", "", NoCipher,
                                                  "AttributeError", <<>>)]
              ELSE IF aux.files[path] = NoKey
                THEN [aux EXCEPT !.last = SymCall("load_key", "", NoCipher,
                                                  "FileNotFoundError", <<>>)]
              ELSE [aux EXCEPT !.key = aux.files[path],
                               !.fernet = aux.files[path],
                               !.last = SymCall("load_key", "", NoCipher,
                                                "ok", <<>>)]
    /\ CliUnchanged

\* encrypt(message=message); the caller keeps the returned cipher
encrypt(message) ==
    /\ aux.kind = "symmetric"
    /\ aux' = IF aux.fernet = NoKey
                THEN [aux EXCEPT !.last = SymCall("encrypt", "message",
                                                  NoCipher, "TypeError", <<>>)]
                ELSE [aux EXCEPT
                        !.token = [key |-> aux.fernet,
                                   data |-> str_encode(message)],
                        !.last = SymCall("encrypt", "message", NoCipher, "ok",
                                         message)]
    /\ CliUnchanged

\* decrypt(<kw>=cipher) of the cipher the caller kept
decrypt(kw) ==
    /\ aux.kind = "symmetric"
    /\ aux.token # NoCipher
    /\ aux' = [aux EXCEPT !.last =
                 IF kw \notin DecryptParams \/ aux.fernet = NoKey
                   THEN SymCall("decrypt", kw, aux.token, "TypeError", <<>>)
                 ELSE IF aux.token.key # aux.fernet
                   THEN SymCall("decrypt", kw, aux.token, "InvalidToken", <<>>)
                 ELSE SymCall("decrypt", kw, aux.token, "ok",
                              bytes_decode(aux.token.data))]
    /\ CliUnchanged

NextSymmetric ==
    \/ \E password \in BOOLEAN, fresh \in 1..MaxKeys :
            generate_key(password, fresh)
    \/ \E path \in KeyFiles : store_key(path)
    \/ delete_key
    \/ \E path \in KeyFiles : delete_key_file(path)
    \/ \E path \in KeyFiles : load_key(path)
    \/ \E message \in {<<>>, <<72>>, <<233>>, <<72, 233>>} : encrypt(message)
    \/ \E kw \in CipherKeywords : decrypt(kw)

SpecSymmetric == InitSymmetric /\ [][NextSymmetric]_vars

\* ---------------------------------------------------------- remote resource
\* every pass of the upload loop is a POST of its own to the upload endpoint,
\* with the chunk as the multipart field "file" under the file's name and
\* nothing that ties it to the other chunks: the endpoint sees one upload
\* per chunk

\* the result of upload is decoded from `response`, the answer to the last
\* POST: the bytes behind the returned id are those of that request
uploaded_content(sent) == sent[Len(sent)]

\* ------------------------------------------------------------ properties
TransportErrors == {"HTTPError", "RetryError"}

\* the chunk loop of upload has ended by reading b""
UploadLoopDone ==
    /\ frame.op = "upload"
    /\ \/ frame.status = "returned"
       \/ frame.status = "raised" /\ frame.error \in {"UnboundLocalError", LoggerError}

RECURSIVE SumLen(_)
SumLen(chunks) ==
    IF chunks = <<>> THEN 0 ELSE Head(chunks).len + SumLen(Tail(chunks))

\* the slices follow one another from offset 0, none is empty
Consecutive(chunks) ==
    \A i \in 1..Len(chunks) :
        /\ chunks[i].len > 0
        /\ chunks[i].off = SumLen(SubSeq(chunks, 1, i - 1))

\* C1: once set_credentials(Authorization.Basic) has been called on a
\* client with token T, every request issued afterwards carries the header
\* Authorization: Basic base64(T)
C1_AuthHeaderOnEveryRequest ==
    (lastCall.method # "none" /\ lastCall.afterCredentials
                              /\ config.token # NoToken)
        => lastCall.Authorization = Basic(b64encode(config.token))

\* C2: every request of one client goes through the session that carried
\* the client's first request
C2_SameSession ==
    lastCall.method # "none" => lastCall.sid = firstSid

\* C3: against a server that always answers a forcelisted status, a
\* transport call makes exactly total + 1 requests and then raises
C3_ExactlyNRetries ==
    (lastCall.method # "none" /\ lastCall.forced)
        => /\ lastCall.attempts = config.total + 1
           /\ lastCall.outcome \in TransportErrors

\* C4: the chunks sent by upload are consecutive slices of the file in
\* file order, and once the loop has ended their lengths add up to the
\* file size
C4_ChunksCoverFile ==
    frame.op = "upload"
        => /\ Consecutive(frame.sent)
           /\ UploadLoopDone => SumLen(frame.sent) = frame.size

\* C5: a file of N >= 2 bytes is sent in chunks of min(1 MiB, N / 2)
\* bytes (the last one may be shorter), at least two of them; a 10-byte
\* file goes out as two chunks of 5 bytes, and a returned result reports
\* the file size
C5_AtLeastTwoChunks ==
    (frame.op = "upload" /\ frame.size >= 2)
        => LET expected == IF frame.size \div 2 < MB THEN frame.size \div 2 ELSE MB
           IN  /\ \A i \in 1..Len(frame.sent) :
                     /\ frame.sent[i].len <= expected
                     /\ i < Len(frame.sent) => frame.sent[i].len = expected
               /\ UploadLoopDone => Len(frame.sent) >= 2
               /\ (UploadLoopDone /\ frame.size = 10)
                     => frame.sent = << [off |-> 0, len |-> 5], [off |-> 5, len |-> 5] >>
               /\ frame.status = "returned" => frame.result.size = frame.size

C5_Witness ==
    /\ frame.op = "upload" /\ frame.status = "returned"
    /\ frame.size = 10
    /\ Len(frame.sent) = 2
    /\ frame.result.size = 10

\* C6: for a file of 0 or 1 byte the chunk size of upload and download is
\* at least 1, the transfer does not spin, and upload fails only if the
\* transport fails
C6_ChunkFloor ==
    /\ (frame.op = "upload" /\ frame.size \in {0, 1})
          => /\ frame.chunk_size >= 1
             /\ frame.status = "raised" => frame.error \in TransportErrors
    /\ (frame.op = "download" /\ frame.opened /\ frame.size \in {0, 1})
          => /\ frame.chunk_size >= 1
             /\ frame.status # "hung"

\* C7: once the last response is decoded (and the logger accepted the
\* record), upload returns a result whose
\* url is the response's "url" field if there is one, and otherwise the
\* api joined with the download template applied to the resource id
C7_UrlVerbatimOrDerived ==
    (UploadLoopDone /\ frame.response.bound /\ frame.error # LoggerError)
        => /\ frame.status = "returned"
           /\ frame.result.url =
                 IF frame.response.hasUrl
                 THEN PyStr(ResponseUrl)
                 ELSE PyStr(join_url(config.provider.api,
                                     format(config.provider.download,
                                            frame.result.resource)))

\* C8: download with the progress bar enabled and size or name missing
\* raises the argument error at once: no request has been issued, the
\* destination was not opened and is as it was before the call
C8_FailFast ==
    (frame.op = "download" /\ frame.progressbar
         /\ (frame.size = NoneInt \/ frame.name = NoneStr))
        => /\ frame.status = "raised"
           /\ frame.error = "TypeError: invalid combination of arguments"
           /\ frame.requests = 0
           /\ ~frame.opened
           /\ dest = frame.destBefore

C8_Witness ==
    /\ frame.op = "download" /\ frame.progressbar
    /\ frame.size # NoneInt /\ frame.name = NoneStr
    /\ frame.status = "raised"
    /\ dest.exists /\ dest.content # <<>>

\* C9: download in its simple form (no progress bar, no size, no name)
\* issues the GET and fails only if the transport fails
C9_SimpleDownload ==
    (frame.op = "download" /\ ~frame.progressbar
         /\ frame.size = NoneInt /\ frame.name = NoneStr)
        => /\ frame.requests >= 1
           /\ frame.status = "raised" => frame.error \in TransportErrors

\* C10: when download returns, the destination holds the bytes of the
\* response body in order, and the body was not shorter than the size the
\* result reports
C10_NoSilentTruncation ==
    (frame.op = "download" /\ frame.status = "returned")
        => /\ Consecutive(dest.content)
           /\ SumLen(dest.content) = frame.body
           /\ ~(frame.body < frame.result.size)

\* C11: in an upload or download call the progress value never decreases
\* from one update to the next, never exceeds the declared total (the file
\* size, the size argument), and equals it when the call returns
C11_Progress ==
    /\ [] ( (frame.op \in {"upload", "download"}
               /\ frame.status \in {"running", "returned"})
            => /\ frame.progress <= frame.size
               /\ frame.status = "returned" => frame.progress = frame.size )
    /\ [][ (frame.status = "running" /\ frame'.op = frame.op)
              => frame'.progress >= frame.progress ]_vars

\* C12: in upload the progress value counts only bytes of chunks whose
\* POST has returned; a POST that raises leaves it as it was
C12_ProgressAfterPost ==
    frame.op = "upload" => frame.progress <= SumLen(frame.sent)

C12_Witness ==
    /\ frame.op = "upload" /\ frame.status = "raised"
    /\ frame.error \in TransportErrors
    /\ Len(frame.sent) >= 1
    /\ frame.progress = SumLen(frame.sent)
    /\ frame.offset < frame.size

\* C20: when upload or download has returned or raised, the file the call
\* opened is closed
C20_HandlesReleased ==
    (frame.op \in {"upload", "download"} /\ frame.status \in {"returned", "raised"})
        => ~frame.handle

C20_Witness ==
    /\ frame.op = "download" /\ frame.status = "raised"
    /\ frame.opened /\ ~frame.handle
    /\ frame.error \in TransportErrors \cup {"ConnectionError"}

\* C13: whatever the number of slashes the base URL ends in and the
\* endpoint starts with, a transport primitive requests the base and the
\* endpoint joined by exactly one slash
C13_OneSlash ==
    (aux.kind = "transport" /\ aux.method # "")
        => aux.url = aux.stem \o <<"/">> \o aux.rest

C13_Witness ==
    /\ aux.kind = "transport" /\ aux.method = "POST"
    /\ config.provider.api = aux.stem \o Slashes(MaxSlashes)
    /\ aux.endpoint = Slashes(MaxSlashes) \o aux.rest
    /\ aux.url = aux.stem \o <<"/">> \o aux.rest

\* C19: a _get or _post call does not fail because of its keyword
\* arguments; it hands the session the caller's timeout and proxies where
\* the caller gave them and the configured ones where not
C19_PerCallOverride ==
    (aux.kind = "transport" /\ aux.method \in {"GET", "POST"})
        => /\ aux.error = ""
           /\ \A k \in {"timeout", "proxies"} :
                aux.received[k] = IF k \in aux.kwargs THEN "caller" ELSE "configured"

\* C14: Timeout(a, b) has connect = a and read = b and every request is
\* given (a, b); Timeout(a) has connect = read = a and every request is
\* given a for both
C14_TimeoutPair ==
    (aux.kind = "timeout" /\ aux.stage = "used")
        => /\ aux.form = "(a, b)"
                => /\ aux.timeout.connect = aux.a /\ aux.timeout.read = aux.b
                   /\ aux.request_timeout.connect = aux.a
                   /\ aux.request_timeout.read = aux.b
           /\ (aux.form = "(a)" /\ aux.a > 0)
                => /\ aux.timeout.connect = aux.a /\ aux.timeout.read = aux.a
                   /\ aux.request_timeout.connect = aux.a
                   /\ aux.request_timeout.read = aux.a

\* C15: however Timeout is called, it either warns or leaves both connect
\* and read set, on the object and in the value requests are given
C15_NoSilentInfinite ==
    (aux.kind = "timeout" /\ aux.stage # "args")
        => \/ aux.timeout.warned
           \/ /\ aux.timeout.connect # NoneInt /\ aux.timeout.read # NoneInt
              /\ aux.timeout.values.connect # NoneInt
              /\ aux.timeout.values.read # NoneInt

\* C16: every constructed client has total >= 0 (a negative total is
\* rejected when the client is constructed)
C16_TotalNonNegative ==
    aux.kind = "clients"
        => \A i \in 1..Len(aux.clients) : aux.clients[i].total >= 0

\* C17: a client's status_forcelist holds what it held at construction
\* plus what was appended through this client, and the default list of
\* the class keeps its content
C17_ConfigOwned ==
    aux.kind = "clients"
        => /\ \A i \in 1..Len(aux.clients) :
                aux.heap[aux.clients[i].status_forcelist] = aux.clients[i].expected
           /\ aux.heap[ClassList] = _status_forcelist

\* C18: what happens to one client's logger leaves the other's alone: a
\* client's log file holds only records that client logged, and the level
\* a client logs at is the level it asked for last
C18_LoggersIsolated ==
    aux.kind = "loggers"
        => \A c \in LogClients :
             /\ aux.files[c].writers \subseteq {c}
             /\ aux.logger.level = aux.wanted[c]

\* C21: when a transport call of upload, preview or download raised an
\* HTTP error, the operation has raised that same error, has no result,
\* has made no request after the failing one and has read or written no
\* chunk after it
C21_ErrorPropagates ==
    (frame.op \in {"upload", "preview", "download"}
        /\ lastCall.outcome \in TransportErrors)
        => /\ frame.status = "raised"
           /\ frame.error = lastCall.outcome
           /\ frame.result = NoResult
           /\ frame.requests = Len(frame.sent) + lastCall.attempts
           /\ frame.offset = SumLen(frame.sent)
           /\ frame.op = "download" => dest.content = <<>>

C21_Witness ==
    /\ frame.op = "upload" /\ frame.status = "raised"
    /\ frame.error = "HTTPError" /\ lastCall.outcome = "HTTPError"
    /\ Len(frame.sent) >= 1
    /\ frame.requests = Len(frame.sent) + 1
    /\ frame.offset < frame.size
    /\ frame.result = NoResult

\* C22: a log call with hide = True, as upload, preview and download make
\* it when enable_logging is False, raises nothing, with or without
\* handlers, and leaves every log file and the logger as they were
C22_HiddenLogIsNoOp ==
    [][ (aux'.kind = "loggers" /\ aux'.last.op \in {"log", "operation"}
            /\ aux'.last.hide)
          => /\ aux'.error = ""
             /\ aux'.files = aux.files
             /\ aux'.logger = aux.logger
             /\ aux'.closed = aux.closed ]_vars

C22_Witness ==
    /\ aux.kind = "loggers"
    /\ aux.last.op = "operation" /\ aux.last.hide
    /\ aux.handlers[aux.last.by] = {}
    /\ aux.error = ""
    /\ \E h \in aux.logger.handlers :
         aux.files[h].exists /\ aux.files[h].records = 1

\* C26: after a successful unlink the file is gone and its handler is
\* detached and closed; a missing log file has no attached handler that
\* could write it again; and a client whose handler is not attached,
\* unlinked or never added alike, is refused by log with the TypeError of
\* a logger without handlers
C26_UnlinkForgets ==
    aux.kind = "loggers"
        => /\ (aux.last.op = "unlink" /\ aux.error = "")
                => /\ ~aux.files[aux.last.by].exists
                   /\ aux.last.by \notin aux.logger.handlers
                   /\ aux.last.by \in aux.closed
           /\ \A c \in LogClients :
                ~aux.files[c].exists => c \notin aux.logger.handlers
           /\ (aux.last.op \in {"log", "operation"} /\ ~aux.last.hide
                 /\ aux.last.by \notin aux.logger.handlers)
                => aux.error = LoggerError

\* C23: build_user_agent returns "<package>/<version> <os>/<os-version>
\* CPython/<version>", three tokens separated by single spaces, followed
\* by " username/<name>" exactly when expose_username is set, and it warns
\* exactly then
C23_UserAgentTokens ==
    (aux.kind = "user_agent" /\ aux.called)
        => /\ aux.warned = aux.expose_username
           /\ \E tail \in { <<>> } \cup
                    { <<" ", "username", "/", n>> : n \in {"N/A", "alice", "bob"} } :
                /\ (tail # <<>>) = aux.expose_username
                /\ aux.value =
                     <<aux.package, "/", aux.version, " ",
                       aux.platform.system, "/", aux.platform.release, " ",
                       "CPython", "/", aux.platform.python_version>> \o tail

\* C24: a run of the CLI with a command ends without an uncaught
\* exception and with the logger shut down exactly once: what is raised
\* on the way is absorbed (keyboard interrupt), printed and logged as an
\* error (HTTP error) or logged as critical (anything else)
C24_CliExits ==
    (aux.kind = "cli" /\ aux.phase = "exited" /\ ~aux.args.reset_config)
        => /\ aux.uncaught = ""
           /\ "traceback" \in aux.printed => aux.logged = <<50>>
           /\ aux.shutdowns = 1

\* C30: the CLI download command previews the resources of its list, from
\* --resource or from the lines of the batch file, in order; every
\* download follows the preview of the same resource and gets its name
\* and size; an existing file is downloaded over only with --force or
\* after a confirming answer, and a declined resource is not downloaded
previews_of(calls) == SelectSeq(calls, LAMBDA c : c.op = "preview")

C30_CliDownload ==
    (aux.kind = "commands" /\ aux.command = "download")
        => /\ LET p == previews_of(aux.calls)
              IN  /\ Len(p) <= Len(aux.given)
                  /\ \A j \in 1..Len(p) : p[j].resource = aux.given[j]
           /\ \A j \in 1..Len(aux.calls) :
                aux.calls[j].op = "download"
                  => /\ j > 1 /\ aux.calls[j - 1].op = "preview"
                     /\ aux.calls[j - 1].resource = aux.calls[j].resource
                     /\ aux.calls[j].name = <<"name of", aux.calls[j].resource>>
                     /\ aux.calls[j].size \in {10, 11}
                     /\ (aux.calls[j].existed /\ ~aux.force) => aux.calls[j].confirmed
                     /\ aux.calls[j].resource \notin aux.declined

\* C25: what a `with ConfigHandler(path)` block added is in the file when
\* the block has exited; a second handler that read the file returns
\* every setting with the value and type it was added with, also after
\* the file is unlinked; save() writes the file with what the handler
\* holds; a removed section is not in json
C25_ConfigRoundTrip ==
    aux.kind = "config"
        => /\ aux.block = "exited" /\ aux.file.exists /\ ~aux.saved
                => DOMAIN aux.file.data = DOMAIN aux.added
           /\ aux.reader.loaded
                => /\ \A s \in DOMAIN aux.reader.config :
                        \A o \in DOMAIN aux.reader.config[s] :
                            get_option_value(s, o) = aux.added[s][o]
                   /\ \A s \in aux.removed : s \notin DOMAIN json
                   /\ aux.saved => /\ aux.file.exists
                                   /\ aux.file.data = aux.reader.config

\* C27: after generate_key; store_key(name); delete_key(); load_key(name) the
\* key is the stored one, decrypt(cipher=encrypt(message=m)) returns m whenever
\* a key is held, and encrypt and decrypt raise TypeError exactly when no key
\* is held
C27_KeyCycle ==
    aux.kind = "symmetric"
        => /\ aux.last.op = "load_key" /\ aux.last.outcome = "ok"
                => aux.fernet = aux.files["test.key"]
           /\ aux.last.op \in {"encrypt", "decrypt"}
                => (aux.last.outcome = "TypeError" <=> aux.last.held = NoKey)
           /\ (aux.last.op = "decrypt" /\ aux.last.held # NoKey
                    /\ aux.last.token.key = aux.last.held)
                => /\ aux.last.outcome = "ok"
                   /\ str_encode(aux.last.result) = aux.last.token.data

\* C28: one upload call makes one upload of the whole file at the endpoint,
\* and the resource the result names holds the whole file, however many
\* chunks the file was read in
C28_OneResourceWholeFile ==
    (frame.op = "upload" /\ frame.status = "returned")
        => /\ Len(frame.sent) = 1
           /\ uploaded_content(frame.sent) = [off |-> 0, len |-> frame.size]

\* C29: a download whose GET fails before any body byte is received leaves
\* the destination path as it was before the call: an existing file keeps
\* its content and no new file is created
C29_FailedGetLeavesPath ==
    (frame.op = "download" /\ frame.status = "raised"
        /\ lastCall.method = "GET" /\ lastCall.outcome \in TransportErrors
        /\ frame.offset = 0)
        => dest = frame.destBefore
====
